---- MODULE Spec2Model ----
(***************************************************************************)
(* Model of the synth_quicklogic script pass                               *)
(* (ql-qlf-plugin/synth_quicklogic.cc).                                    *)
(*                                                                         *)
(* The pass object keeps its option fields between invocations; execute()  *)
(* resets them, parses its arguments, checks its preconditions and runs    *)
(* script(), which walks the sixteen checkpoints and issues operations     *)
(* against the design.  An operation is recorded as the checkpoint it was  *)
(* issued in, the operation name and the literal parameter string (the     *)
(* command handed to run() is name \o args).  The informational second     *)
(* argument of run() only decorates the help text and is not recorded.     *)
(***************************************************************************)
EXTENDS Integers, Sequences, FiniteSets, TLC

VARIABLES
    this,        \* the option fields of SynthQuickLogicPass
    frame,       \* locals of a running execute(): run_from, run_to, argidx
    pc,          \* "idle", or "args" while execute() is in its argument loop
    status,      \* outcome of the last invocation
    scratchpad,  \* the design's scratchpad: ql.lib_path (optional) and abc9.D
    design,      \* the design execute() was called on: whether it is fully selected
    calls,       \* operations invoked by the current/last execute()
    listing,     \* operations listed by the last help()
    warnings,    \* warnings logged by the current/last execute()
    runlog       \* completed runs on the loaded design: configuration, window, operations

vars == <<this, frame, pc, status, scratchpad, design, calls, listing, warnings, runlog>>

-----------------------------------------------------------------------------
(* Bounds of the model *)

\* most options on the command line of one execute() call
MaxArgs == 3
\* most script runs on one loaded design before it is loaded afresh
MaxRuns == 3

-----------------------------------------------------------------------------
(* Checkpoints and the resume window *)

Labels == <<"begin", "prepare", "map_dsp", "coarse", "map_bram", "map_ffram",
            "map_gates", "map_ffs", "map_luts", "map_cells", "check", "iomap",
            "finalize", "blif", "edif", "verilog">>

LabelSet == {Labels[i] : i \in 1..Len(Labels)}

\* the place of a checkpoint in the order of script()
LabelIndex == [label \in LabelSet |-> CHOOSE i \in 1..Len(Labels) : Labels[i] = label]

\* The window is the inclusive range of checkpoints from run_from to run_to;
\* an empty end stands for the first, respectively the last, checkpoint.
InWindow(label, run_from, run_to) ==
    /\ (run_from = "" \/ LabelIndex[run_from] <= LabelIndex[label])
    /\ (run_to = "" \/ LabelIndex[label] <= LabelIndex[run_to])

\* ScriptPass::check_label: every label is visited in preview (help) mode,
\* otherwise exactly the labels of the resume window.
check_label(c, label) == c.help_mode \/ InWindow(label, c.run_from, c.run_to)

\* one operation: the checkpoint it is issued in, its name, its parameter string
Cmd(label, name, args) == [label |-> label, name |-> name, args |-> args]

\* ScriptPass::run: the operations are issued (or listed, in preview mode) in
\* the order of the calls; s.ops is what has been issued so far.
run(s, ops) == [s EXCEPT !.ops = @ \o ops]

\* a run() call under a condition
When(cond, ops) == IF cond THEN ops ELSE <<>>

-----------------------------------------------------------------------------
(* clear_flags *)

clear_flags_nodsp_kept(t) ==
    [t EXCEPT !.top_opt = "-auto-top",
              !.edif_file = "",
              !.blif_file = "",
              !.verilog_file = "",
              !.currmodule = "",
              !.family = "qlf_k4n8",
              !.inferAdder = TRUE,
              !.inferBram = TRUE,
              !.bramTypes = FALSE,
              !.abcOpt = TRUE,
              !.abc9 = TRUE,
              !.noffmap = FALSE,
              !.nosdff = FALSE,
              !.use_dsp_cfg_params = "",
              !.lib_path = "+/quicklogic/"]

clear_flags(t) ==
    [t EXCEPT !.top_opt = "-auto-top",
              !.edif_file = "",
              !.blif_file = "",
              !.verilog_file = "",
              !.currmodule = "",
              !.family = "qlf_k4n8",
              !.inferAdder = TRUE,
              !.inferBram = TRUE,
              !.bramTypes = FALSE,
              !.abcOpt = TRUE,
              !.abc9 = TRUE,
              !.noffmap = FALSE,
              !.nodsp = FALSE,
              !.nosdff = FALSE,
              !.use_dsp_cfg_params = "",
              !.lib_path = "+/quicklogic/"]

-----------------------------------------------------------------------------
(* script(): one operator per checkpoint.  c is what the script reads: the  *)
(* option fields, ScriptPass::help_mode (set by run_script and help_script  *)
(* before every call of script) and the resume window; s is what it builds: *)
(* the operations issued so far and the local noDFFArgs.                    *)

Ctx(t, help_mode, run_from, run_to) ==
    [top_opt |-> t.top_opt, edif_file |-> t.edif_file, blif_file |-> t.blif_file,
     verilog_file |-> t.verilog_file, currmodule |-> t.currmodule, family |-> t.family,
     inferAdder |-> t.inferAdder, inferBram |-> t.inferBram, bramTypes |-> t.bramTypes,
     abcOpt |-> t.abcOpt, abc9 |-> t.abc9, noffmap |-> t.noffmap, nodsp |-> t.nodsp,
     nosdff |-> t.nosdff, use_dsp_cfg_params |-> t.use_dsp_cfg_params,
     lib_path |-> t.lib_path, help_mode |-> help_mode,
     run_from |-> run_from, run_to |-> run_to]

\* std::string noDFFArgs; declared empty at every call of script()
script_start == [ops |-> <<>>, noDFFArgs |-> ""]

script_family_placeholder(c) == "<family>"

\* if (help_mode) family = "<family>";
script_family(c) == IF c.help_mode THEN "<family>" ELSE c.family

\* the fields of the pass object as script() leaves them: the family
\* assignment under help_mode is its only write to a field
script_this(t, c) == [t EXCEPT !.family = script_family(c)]

readVelArgs(c) ==
    LET family_path == " " \o c.lib_path \o c.family
    IN  family_path \o "/cells_sim.v"
        \o (IF c.family = "qlf_k6n10f"
              THEN family_path \o "/dsp_sim.v" \o family_path \o "/brams_sim.v"
                   \o (IF c.bramTypes THEN family_path \o "/bram_types_sim.v" ELSE "")
              ELSE "")

script_begin(c, s) ==
    LET R(name, args) == <<Cmd("begin", name, args)>>
    IN  IF check_label(c, "begin")
          THEN run(s,
                   R("read_verilog", " -lib -specify -nomem2reg " \o c.lib_path
                                     \o "common/cells_sim.v" \o readVelArgs(c))
                   \o R("hierarchy",
                        " -check " \o (IF c.help_mode THEN "-top <top>" ELSE c.top_opt)))
          ELSE s

\* the local noDFFArgs as prepare extends it
prepare_noDFFArgs(c, noDFFArgs) ==
    noDFFArgs \o (IF c.nosdff THEN " -nosdff" ELSE "")
              \o (IF c.family = "qlf_k4n8" THEN " -nodffe" ELSE "")

script_prepare(c, s) ==
    LET R(name, args) == <<Cmd("prepare", name, args)>>
        noDFFArgs == prepare_noDFFArgs(c, s.noDFFArgs)
    IN  IF check_label(c, "prepare")
          THEN [run(s,
                    R("proc", "")
                    \o R("flatten", "")
                    \o When(c.help_mode \/ c.family = "pp3", R("tribuf", " -logic"))
                    \o R("deminout", "")
                    \o R("opt_expr", "")
                    \o R("opt_clean", "")
                    \o R("check", "")
                    \o R("opt", " -nodffe -nosdff")
                    \o R("fsm", "")
                    \o R("opt", noDFFArgs)
                    \o R("wreduce", "")
                    \o R("peepopt", "")
                    \o R("opt_clean", "")
                    \o R("share", ""))
                EXCEPT !.noDFFArgs = noDFFArgs]
          ELSE s

\* if (check_label("map_dsp"), "(skip if -no_dsp)"): a comma expression; the
\* label is tested and the result dropped, the condition is the string
\* literal, which is never null.
map_dsp_entered(c) ==
    LET tested == check_label(c, "map_dsp")
    IN  TRUE

\* if (help_mode || !nodsp)
map_dsp_k6n10_enabled_nodsp_ignored(c) == TRUE

map_dsp_k6n10_enabled(c) == c.help_mode \/ ~c.nodsp

map_dsp_qlf_k6n10(c) ==
    LET R(name, args) == <<Cmd("map_dsp", name, args)>>
    IN  When(map_dsp_k6n10_enabled(c),
             R("memory_dff", "")
             \o R("wreduce", " t:$mul")
             \o R("techmap",
                  " -map +/mul2dsp.v -map " \o c.lib_path \o c.family
                  \o "/dsp_map.v -D DSP_A_MAXWIDTH=16 -D DSP_B_MAXWIDTH=16 "
                  \o "-D DSP_A_MINWIDTH=2 -D DSP_B_MINWIDTH=2 -D DSP_Y_MINWIDTH=11 "
                  \o "-D DSP_NAME=$__MUL16X16")
             \o R("select", " a:mul2dsp")
             \o R("setattr", " -unset mul2dsp")
             \o R("opt_expr", " -fine")
             \o R("wreduce", "")
             \o R("select", " -clear")
             \o R("ql_dsp", "")
             \o R("chtype", " -set $mul t:$__soft_mul"))

dsp_rules_narrow_first ==
    <<[a_maxwidth |-> 10, b_maxwidth |-> 9, a_minwidth |-> 4, b_minwidth |-> 4,
       type |-> "$__QL_MUL10X9"],
      [a_maxwidth |-> 20, b_maxwidth |-> 18, a_minwidth |-> 11, b_minwidth |-> 10,
       type |-> "$__QL_MUL20X18"]>>

\* const std::vector<DspParams> dsp_rules
dsp_rules ==
    <<[a_maxwidth |-> 20, b_maxwidth |-> 18, a_minwidth |-> 11, b_minwidth |-> 10,
       type |-> "$__QL_MUL20X18"],
      [a_maxwidth |-> 10, b_maxwidth |-> 9, a_minwidth |-> 4, b_minwidth |-> 4,
       type |-> "$__QL_MUL10X9"]>>

\* the body of the loop over dsp_rules: the rule's techmap, then the chtype
dsp_rule_cmds(rule) ==
    <<Cmd("map_dsp", "techmap",
          " -map +/mul2dsp.v "
          \o "-D DSP_A_MAXWIDTH=" \o ToString(rule.a_maxwidth)
          \o " -D DSP_B_MAXWIDTH=" \o ToString(rule.b_maxwidth)
          \o " -D DSP_A_MINWIDTH=" \o ToString(rule.a_minwidth)
          \o " -D DSP_B_MINWIDTH=" \o ToString(rule.b_minwidth)
          \o " -D DSP_NAME=" \o rule.type),
      Cmd("map_dsp", "chtype", " -set $mul t:$__soft_mul")>>

\* for (const auto &rule : dsp_rules) { ... }: the rules in the order of the vector
RECURSIVE dsp_rules_loop(_, _)
dsp_rules_loop(rules, i) ==
    IF i > Len(rules) THEN <<>> ELSE dsp_rule_cmds(rules[i]) \o dsp_rules_loop(rules, i + 1)

dsp_map_args(c) ==
    " -map " \o c.lib_path \o c.family \o "/dsp_map.v -D USE_DSP_CFG_PARAMS="
    \o (IF c.use_dsp_cfg_params = "" THEN "0" ELSE "1")

map_dsp_qlf_k6n10f(c) ==
    LET R(name, args) == <<Cmd("map_dsp", name, args)>>
        lib == c.lib_path \o c.family
    IN  IF c.help_mode
          THEN R("wreduce", " t:$mul")
               \o R("ql_dsp_macc", c.use_dsp_cfg_params)
               \o R("techmap", " -map +/mul2dsp.v [...]")
               \o R("chtype", " -set $mul t:$__soft_mul")
               \o R("techmap", " -map " \o lib \o "/dsp_map.v")
               \o R("techmap", dsp_map_args(c))
               \o R("ql_dsp_simd", "")
               \o R("techmap", " -map " \o lib \o "/dsp_final_map.v")
               \o R("ql_dsp_io_regs", "")
          ELSE When(~c.nodsp,
                    R("wreduce", " t:$mul")
                    \o R("ql_dsp_macc", c.use_dsp_cfg_params)
                    \o dsp_rules_loop(dsp_rules, 1)
                    \o R("techmap", dsp_map_args(c))
                    \o R("ql_dsp_simd", "")
                    \o R("techmap", " -map " \o lib \o "/dsp_final_map.v")
                    \o R("ql_dsp_io_regs", ""))

script_map_dsp(c, s) ==
    IF map_dsp_entered(c)
      THEN run(s,
               When(c.help_mode \/ c.family = "qlf_k6n10", map_dsp_qlf_k6n10(c))
               \o When(c.help_mode \/ c.family = "qlf_k6n10f", map_dsp_qlf_k6n10f(c)))
      ELSE s

script_coarse(c, s) ==
    LET R(name, args) == <<Cmd("coarse", name, args)>>
    IN  IF check_label(c, "coarse")
          THEN run(s,
                   R("techmap", " -map +/cmp2lut.v -D LUT_WIDTH=4")
                   \o R("opt_expr", "")
                   \o R("opt_clean", "")
                   \o R("alumacc", "")
                   \o R("pmuxtree", "")
                   \o R("opt", s.noDFFArgs)
                   \o R("memory", " -nomap")
                   \o R("opt_clean", ""))
          ELSE s

-----------------------------------------------------------------------------
(* map_bram and the -bram_types enumeration *)

\* for (int a_dwidth : {1, 2, 4, 9, 18, 36})
nonsplit_widths == <<1, 2, 4, 9, 18, 36>>

split_widths_with_36 == <<1, 2, 4, 9, 18, 36>>

\* for (int a1_dwidth : {1, 2, 4, 9, 18})
split_widths == <<1, 2, 4, 9, 18>>

X(n) == "_X" \o ToString(n)

nonsplit_type_a_twice(kind, a, b) ==
    "TDP36K_" \o kind \o "_A" \o X(a) \o "_B" \o X(a) \o "_nonsplit"

\* "TDP36K_<kind>_A_X%d_B_X%d_nonsplit"
nonsplit_type(kind, a, b) ==
    "TDP36K_" \o kind \o "_A" \o X(a) \o "_B" \o X(b) \o "_nonsplit"

\* "TDP36K_<kind>_A1_X%d_B1_X%d_A2_X%d_B2_X%d_split"
split_type(kind, a1, b1, a2, b2) ==
    "TDP36K_" \o kind \o "_A1" \o X(a1) \o "_B1" \o X(b1)
    \o "_A2" \o X(a2) \o "_B2" \o X(b2) \o "_split"

\* One chtype operation of the enumeration.  Besides the command it records
\* the type the command sets and the is_inferred value it selects on.
chtype(target, inferred, selection) ==
    [label |-> "map_bram", name |-> "chtype",
     args |-> " -set " \o target \o " t:TDP36K a:is_inferred=" \o ToString(inferred)
              \o " %i " \o selection,
     target |-> target, inferred |-> inferred]

\* first loop nest, is_inferred=0: cmd, cmd1, cmd2 of one (a_dwidth, b_dwidth)
nonsplit_cmds(a, b) ==
    LET ports == "a:port_a_dwidth=" \o ToString(a) \o " %i a:port_b_dwidth="
                 \o ToString(b) \o " %i"
    IN  <<chtype(nonsplit_type("BRAM", a, b), 0, "a:is_fifo=0 %i " \o ports),
          chtype(nonsplit_type("FIFO_ASYNC", a, b), 0,
                 "a:is_fifo=1 %i a:sync_fifo=0 %i " \o ports),
          chtype(nonsplit_type("FIFO_SYNC", a, b), 0,
                 "a:is_fifo=1 %i a:sync_fifo=1 %i " \o ports)>>

\* second loop nest, is_inferred=0 and is_split=1: cmd, cmd1, cmd2
split_cmds(a1, b1, a2, b2) ==
    LET ports == "a:port_a1_dwidth=" \o ToString(a1) \o " %i a:port_b1_dwidth="
                 \o ToString(b1) \o " %i a:port_a2_dwidth=" \o ToString(a2)
                 \o " %i a:port_b2_dwidth=" \o ToString(b2) \o " %i"
    IN  <<chtype(split_type("BRAM", a1, b1, a2, b2), 0,
                 "a:is_split=1 %i a:is_fifo=0 %i " \o ports),
          chtype(split_type("FIFO_ASYNC", a1, b1, a2, b2), 0,
                 "a:is_split=1 %i a:is_fifo=1 %i a:sync_fifo=0 %i " \o ports),
          chtype(split_type("FIFO_SYNC", a1, b1, a2, b2), 0,
                 "a:is_split=1 %i a:is_fifo=1 %i a:sync_fifo=1 %i " \o ports)>>

\* third loop nest, is_inferred=1: one cmd per (a_width, b_width)
inferred_nonsplit_cmds(a, b) ==
    <<chtype(nonsplit_type("BRAM", a, b), 1,
             "a:port_a_width=" \o ToString(a) \o " %i a:port_b_width=" \o ToString(b)
             \o " %i")>>

\* fourth loop nest, is_inferred=1: one cmd per (a1, b1, a2, b2)
inferred_split_cmds(a1, b1, a2, b2) ==
    <<chtype(split_type("BRAM", a1, b1, a2, b2), 1,
             "a:port_a1_width=" \o ToString(a1) \o " %i a:port_b1_width=" \o ToString(b1)
             \o " %i a:port_a2_width=" \o ToString(a2) \o " %i a:port_b2_width="
             \o ToString(b2) \o " %i")>>

\* for (a : W) for (b : W) { ... }: the first (is_inferred=0) or the third
\* (is_inferred=1) loop nest
loop2(W, inferred) ==
    LET body(x, y) == IF inferred = 0 THEN nonsplit_cmds(x, y)
                      ELSE inferred_nonsplit_cmds(x, y)
        n == Len(W)
        per == Len(body(W[1], W[1]))
    IN  [i \in 1..(n * n * per) |->
            LET k == (i - 1) \div per
            IN  body(W[(k \div n) + 1], W[(k % n) + 1])[((i - 1) % per) + 1]]

\* for (a1 : W) for (b1 : W) for (a2 : W) for (b2 : W) { ... }: the second
\* (is_inferred=0) or the fourth (is_inferred=1) loop nest
loop4(W, inferred) ==
    LET body(x1, y1, x2, y2) == IF inferred = 0 THEN split_cmds(x1, y1, x2, y2)
                                ELSE inferred_split_cmds(x1, y1, x2, y2)
        n == Len(W)
        per == Len(body(W[1], W[1], W[1], W[1]))
    IN  [i \in 1..(n * n * n * n * per) |->
            LET k == (i - 1) \div per
            IN  body(W[(k \div (n * n * n)) + 1], W[((k \div (n * n)) % n) + 1],
                     W[((k \div n) % n) + 1], W[(k % n) + 1])[((i - 1) % per) + 1]]

\* if (bramTypes) { the four loop nests, in order }
bram_types_cmds ==
    loop2(nonsplit_widths, 0)
    \o loop4(split_widths, 0)
    \o loop2(nonsplit_widths, 1)
    \o loop4(split_widths, 1)

map_bram_entered_inferBram_ignored(c) ==
    /\ check_label(c, "map_bram")
    /\ (c.help_mode \/ c.family = "qlf_k6n10" \/ c.family = "qlf_k6n10f" \/ c.family = "pp3")

map_bram_entered_any_family(c) == check_label(c, "map_bram") /\ c.inferBram

map_bram_entered(c) ==
    /\ check_label(c, "map_bram")
    /\ (c.help_mode \/ c.family = "qlf_k6n10" \/ c.family = "qlf_k6n10f" \/ c.family = "pp3")
    /\ c.inferBram

script_map_bram(c, s) ==
    LET R(name, args) == <<Cmd("map_bram", name, args)>>
        lib == c.lib_path \o c.family
    IN  IF map_bram_entered(c)
          THEN run(s,
                   When(c.help_mode \/ c.family = "qlf_k6n10f",
                        R("memory_libmap", " -lib " \o lib \o "/libmap_brams.txt")
                        \o R("ql_bram_merge", "")
                        \o R("techmap", " -map " \o lib \o "/libmap_brams_map.v"))
                   \o When(c.help_mode \/ c.family = "qlf_k6n10" \/ c.family = "pp3",
                           R("memory_bram", " -rules " \o lib \o "/brams.txt"))
                   \o When(c.help_mode \/ c.family = "pp3", R("pp3_braminit", ""))
                   \o R("techmap", " -autoproc -map " \o lib \o "/brams_map.v")
                   \o When(c.family = "qlf_k6n10f",
                           R("techmap", " -map " \o lib \o "/brams_final_map.v"))
                   \o When(c.help_mode, R("chtype", " -set TDP36K_<mode> t:TDP36K a:<mode>"))
                   \o When(c.bramTypes, bram_types_cmds))
          ELSE s

script_map_ffram(c, s) ==
    LET R(name, args) == <<Cmd("map_ffram", name, args)>>
    IN  IF check_label(c, "map_ffram")
          THEN run(s,
                   R("opt", " -fast -mux_undef -undriven -fine" \o s.noDFFArgs)
                   \o R("memory_map",
                        " -iattr -attr !ram_block -attr !rom_block -attr logic_block "
                        \o "-attr syn_ramstyle=auto -attr syn_ramstyle=registers "
                        \o "-attr syn_romstyle=auto -attr syn_romstyle=logic")
                   \o R("opt", " -undriven -fine" \o s.noDFFArgs))
          ELSE s

script_map_gates(c, s) ==
    LET R(name, args) == <<Cmd("map_gates", name, args)>>
    IN  IF check_label(c, "map_gates")
          THEN run(s,
                   (IF c.help_mode
                       \/ (c.inferAdder /\ (c.family = "qlf_k4n8" \/ c.family = "qlf_k6n10"
                                            \/ c.family = "qlf_k6n10f"))
                      THEN R("techmap", " -map +/techmap.v -map " \o c.lib_path \o c.family
                                        \o "/arith_map.v")
                      ELSE R("techmap", ""))
                   \o R("opt", " -fast" \o s.noDFFArgs)
                   \o When(c.help_mode \/ c.family = "pp3", R("muxcover", " -mux8 -mux4"))
                   \o R("opt_expr", "")
                   \o R("opt_merge", "")
                   \o R("opt_clean", "")
                   \o R("opt", s.noDFFArgs))
          ELSE s

-----------------------------------------------------------------------------
(* map_ffs .. verilog *)

legalizeArgs_sdff_always(c) ==
    " -cell $_DFFSRE_?NNP_ 0 -cell $_DLATCHSR_?NN_ 0 -cell $_DLATCH_?_ 0"
    \o " -cell $_SDFFE_?N?P_ 0"

\* std::string legalizeArgs of the qlf_k6n10f branch
legalizeArgs(c) ==
    " -cell $_DFFSRE_?NNP_ 0 -cell $_DLATCHSR_?NN_ 0 -cell $_DLATCH_?_ 0"
    \o (IF ~c.nosdff THEN " -cell $_SDFFE_?N?P_ 0" ELSE "")

\* the if / else if chain over the family in map_ffs
map_ffs_family(c) ==
    LET R(name, args) == <<Cmd("map_ffs", name, args)>>
    IN  IF c.family = "qlf_k4n8"
          THEN R("shregmap", " -minlen 8 -maxlen 8")
               \o R("dfflegalize",
                    " -cell $_DFF_P_ 0 -cell $_DFF_P??_ 0 -cell $_DFF_N_ 0 -cell $_DFF_N??_ 0"
                    \o " -cell $_DFFSR_???_ 0")
        ELSE IF c.family = "qlf_k6n10"
          THEN R("dfflegalize",
                 " -cell $_DFF_P_ 0 -cell $_DFF_PP?_ 0 -cell $_DFFE_PP?P_ 0"
                 \o " -cell $_DFFSR_PPP_ 0 -cell $_DFFSRE_PPPP_ 0 -cell $_DLATCHSR_PPP_ 0")
        ELSE IF c.family = "qlf_k6n10f"
          THEN R("shregmap", " -minlen 8 -maxlen 20")
               \o R("dfflegalize", legalizeArgs(c))
        ELSE IF c.family = "pp3"
          THEN R("dfflegalize", " -cell $_DFFSRE_PPPP_ 0 -cell $_DLATCH_?_ x")
               \o R("techmap", " -map " \o c.lib_path \o c.family \o "/cells_map.v")
        ELSE <<>>

script_map_ffs(c, s) ==
    LET R(name, args) == <<Cmd("map_ffs", name, args)>>
        techMapArgs == " -map +/techmap.v -map " \o c.lib_path \o c.family \o "/ffs_map.v"
    IN  IF check_label(c, "map_ffs")
          THEN run(s,
                   R("opt_expr", "")
                   \o When(c.help_mode,
                           R("shregmap", " -minlen <min> -maxlen <max>")
                           \o R("dfflegalize", " -cell <supported FF types>")
                           \o R("techmap", " -map " \o c.lib_path \o c.family
                                           \o "/cells_map.v"))
                   \o map_ffs_family(c)
                   \o When(c.help_mode \/ ~c.noffmap, R("techmap", " " \o techMapArgs))
                   \o When(c.help_mode \/ c.family = "pp3", R("opt_expr", " -mux_undef"))
                   \o R("opt_merge", "")
                   \o R("opt_clean", "")
                   \o R("opt", s.noDFFArgs))
          ELSE s

\* rewrite_filename(lutDefs): a leading "+/" is replaced by the share
\* directory; any other plugin library path is left as it is.
rewrite_filename(lib_path, rest) ==
    IF lib_path = "+/quicklogic/" THEN "<share>/quicklogic/" \o rest ELSE lib_path \o rest

map_luts_k6_no_else(c) ==
    LET R(name, args) == <<Cmd("map_luts", name, args)>>
    IN  When(c.abc9,
             R("read_verilog", " -lib -specify -icells +/quicklogic/pp3/abc9_model.v")
             \o R("abc9", " -maxlut 6"))
        \o R("abc", " -lut 6 ")

map_luts_k6(c) ==
    LET R(name, args) == <<Cmd("map_luts", name, args)>>
    IN  IF c.abc9
          THEN R("read_verilog", " -lib -specify -icells +/quicklogic/pp3/abc9_model.v")
               \o R("abc9", " -maxlut 6")
          ELSE R("abc", " -lut 6 ")

map_luts_pp3(c) ==
    LET R(name, args) == <<Cmd("map_luts", name, args)>>
        lib == c.lib_path \o c.family
        lutDefs == rewrite_filename(c.lib_path, c.family \o "/lutdefs.txt")
        abcArgs == IF c.help_mode
                     THEN "<script>"
                     ELSE "+read_lut," \o lutDefs \o ";"
                          \o "strash;ifraig;scorr;dc2;dretime;strash;dch,-f;if;mfs2;"
                          \o "sweep;eliminate;if;mfs;lutpack;"
                          \o "dress"
    IN  R("techmap", " -map " \o lib \o "/latches_map.v")
        \o When(c.help_mode \/ c.abc9,
                R("read_verilog", " -lib -specify -icells " \o lib \o "/abc9_model.v")
                \o R("techmap", " -map " \o lib \o "/abc9_map.v")
                \o R("abc9", " -maxlut 4 -dff")
                \o R("techmap", " -map " \o lib \o "/abc9_unmap.v"))
        \o When(c.help_mode \/ ~c.abc9, R("abc", " -script " \o abcArgs))

script_map_luts(c, s) ==
    LET R(name, args) == <<Cmd("map_luts", name, args)>>
    IN  IF check_label(c, "map_luts")
          THEN run(s,
                   When(c.help_mode \/ c.abcOpt,
                        When(c.help_mode \/ c.family = "qlf_k6n10" \/ c.family = "qlf_k6n10f",
                             map_luts_k6(c))
                        \o When(c.help_mode \/ c.family = "qlf_k4n8", R("abc", " -lut 4 "))
                        \o When(c.help_mode \/ c.family = "pp3", map_luts_pp3(c)))
                   \o R("clean", "")
                   \o R("opt_lut", ""))
          ELSE s

script_map_cells(c, s) ==
    LET R(name, args) == <<Cmd("map_cells", name, args)>>
        techMapArgs == "-map " \o c.lib_path \o c.family \o "/lut_map.v"
    IN  IF check_label(c, "map_cells")
           /\ (c.help_mode \/ c.family = "qlf_k6n10" \/ c.family = "pp3")
          THEN run(s, R("techmap", " " \o techMapArgs) \o R("clean", ""))
          ELSE s

script_check(c, s) ==
    LET R(name, args) == <<Cmd("check", name, args)>>
    IN  IF check_label(c, "check")
          THEN run(s, R("autoname", "") \o R("hierarchy", " -check") \o R("stat", "")
                      \o R("check", " -noinit"))
          ELSE s

iomap_entered_any_family(c) == check_label(c, "iomap")

\* check_label("iomap", "(for pp3)") && (family == "pp3" || help_mode)
iomap_entered(c) == check_label(c, "iomap") /\ (c.family = "pp3" \/ c.help_mode)

script_iomap(c, s) ==
    LET R(name, args) == <<Cmd("iomap", name, args)>>
    IN  IF iomap_entered(c)
          THEN run(s,
                   R("clkbufmap", " -inpad ckpad Q:P")
                   \o R("iopadmap", " -bits -outpad outpad A:P -inpad inpad Q:P"
                                    \o " -tinoutpad bipad EN:Q:A:P A:top"))
          ELSE s

script_finalize(c, s) ==
    LET R(name, args) == <<Cmd("finalize", name, args)>>
    IN  IF check_label(c, "finalize")
          THEN run(s,
                   When(c.help_mode \/ c.family = "pp3",
                        R("setundef", " -zero -params -undriven"))
                   \o When(c.family = "pp3" \/ c.edif_file # "",
                           R("hilomap", " -hicell logic_1 a -locell logic_0 a -singleton A:top"))
                   \o R("opt_clean", " -purge")
                   \o R("check", "")
                   \o R("blackbox", " =A:whitebox"))
          ELSE s

script_blif(c, s) ==
    IF check_label(c, "blif")
      THEN run(s, When(c.help_mode \/ c.blif_file # "",
                       <<Cmd("blif", "write_blif",
                             " -param " \o (IF c.help_mode THEN "<file-name>"
                                                           ELSE c.blif_file))>>))
      ELSE s

edif_entered_path_ignored(c) == check_label(c, "edif")

\* check_label("edif", "(if -edif)") && (help_mode || !edif_file.empty())
edif_entered(c) == check_label(c, "edif") /\ (c.help_mode \/ c.edif_file # "")

script_edif(c, s) ==
    LET R(name, args) == <<Cmd("edif", name, args)>>
    IN  IF edif_entered(c)
          THEN run(s,
                   R("splitnets", " -ports -format ()")
                   \o R("quicklogic_eqn", "")
                   \o R("write_ql_edif",
                        " -nogndvcc -attrprop -pvector par " \o c.currmodule \o " "
                        \o (IF c.help_mode THEN "<file-name>" ELSE c.edif_file)))
          ELSE s

script_verilog(c, s) ==
    IF check_label(c, "verilog")
      THEN run(s, When(c.help_mode \/ c.verilog_file # "",
                       <<Cmd("verilog", "write_verilog",
                             " -noattr -nohex " \o (IF c.help_mode THEN "<file-name>"
                                                                   ELSE c.verilog_file))>>))
      ELSE s

script_coarse_before_map_dsp(c0) ==
    LET c == [c0 EXCEPT !.family = script_family(c0)]
        s1 == script_begin(c, script_start)
        s2 == script_prepare(c, s1)
        s3 == script_coarse(c, s2)
        s4 == script_map_dsp(c, s3)
        s5 == script_map_bram(c, s4)
        s6 == script_map_ffram(c, s5)
        s7 == script_map_gates(c, s6)
        s8 == script_map_ffs(c, s7)
        s9 == script_map_luts(c, s8)
        s10 == script_map_cells(c, s9)
        s11 == script_check(c, s10)
        s12 == script_iomap(c, s11)
        s13 == script_finalize(c, s12)
        s14 == script_blif(c, s13)
        s15 == script_edif(c, s14)
    IN  script_verilog(c, s15)

\* script(): the sixteen checkpoints in their fixed order
script(c0) ==
    LET c == [c0 EXCEPT !.family = script_family(c0)]
        s1 == script_begin(c, script_start)
        s2 == script_prepare(c, s1)
        s3 == script_map_dsp(c, s2)
        s4 == script_coarse(c, s3)
        s5 == script_map_bram(c, s4)
        s6 == script_map_ffram(c, s5)
        s7 == script_map_gates(c, s6)
        s8 == script_map_ffs(c, s7)
        s9 == script_map_luts(c, s8)
        s10 == script_map_cells(c, s9)
        s11 == script_check(c, s10)
        s12 == script_iomap(c, s11)
        s13 == script_finalize(c, s12)
        s14 == script_blif(c, s13)
        s15 == script_edif(c, s14)
    IN  script_verilog(c, s15)

-----------------------------------------------------------------------------
(* execute(): arguments *)

Families == {"pp3", "qlf_k4n8", "qlf_k6n10", "qlf_k6n10f"}

\* One option of the command line: the option string and, for an option that
\* takes one, its value.  The value of -run is given already cut at the first
\* ':' (one field when there is no colon, else the text before and after it).
Arg(opt, val) == [opt |-> opt, val |-> val]

FlagArgs ==
    {Arg(o, <<>>) : o \in {"-no_dsp", "-use_dsp_cfg_params", "-no_adder", "-no_bram",
                           "-bram_types", "-no_abc_opt", "-no_abc9", "-no_ff_map", "-nosdff"}}

FamilyArgs == {Arg("-family", <<f>>) : f \in Families \cup {"ql_unknown"}}

OutputArgs ==
    {Arg("-top", <<"top">>), Arg("-edif", <<"out.edif">>), Arg("-blif", <<"out.blif">>),
     Arg("-verilog", <<"out.v">>)}

RunArgs ==
    {Arg("-run", w) : w \in {<<"begin", "map_gates">>, <<"map_ffs", "verilog">>,
                             <<"coarse">>, <<"map_bram", "">>}}

Args == FlagArgs \cup FamilyArgs \cup OutputArgs \cup RunArgs

\* design->scratchpad_get_string("ql.lib_path", lib_path)
scratchpad_get_string(sp, default) ==
    IF sp.ql_lib_path = <<>> THEN default ELSE sp.ql_lib_path[1]

\* one iteration of the argument loop: the fields after option a
parse_option(t, a) ==
    CASE a.opt = "-top" -> [t EXCEPT !.top_opt = "-top " \o a.val[1]]
      [] a.opt = "-edif" -> [t EXCEPT !.edif_file = a.val[1]]
      [] a.opt = "-family" -> [t EXCEPT !.family = a.val[1]]
      [] a.opt = "-blif" -> [t EXCEPT !.blif_file = a.val[1]]
      [] a.opt = "-verilog" -> [t EXCEPT !.verilog_file = a.val[1]]
      [] a.opt = "-no_dsp" -> [t EXCEPT !.nodsp = TRUE]
      [] a.opt = "-use_dsp_cfg_params" -> [t EXCEPT !.use_dsp_cfg_params = " -use_dsp_cfg_params"]
      [] a.opt = "-no_adder" -> [t EXCEPT !.inferAdder = FALSE]
      [] a.opt = "-no_bram" -> [t EXCEPT !.inferBram = FALSE]
      [] a.opt = "-bram_types" -> [t EXCEPT !.bramTypes = TRUE]
      [] a.opt = "-no_abc_opt" -> [t EXCEPT !.abcOpt = FALSE]
      [] a.opt = "-no_abc9" -> [t EXCEPT !.abc9 = FALSE]
      [] a.opt = "-no_ff_map" -> [t EXCEPT !.noffmap = TRUE]
      [] a.opt = "-nosdff" -> [t EXCEPT !.nosdff = TRUE]
      [] OTHER -> t

parse_run_from_only(f, a) ==
    IF a.opt = "-run"
      THEN IF Len(a.val) = 1
             THEN [f EXCEPT !.run_from = a.val[1]]
             ELSE [f EXCEPT !.run_from = a.val[1], !.run_to = a.val[2]]
      ELSE f

\* the -run branch of the loop: run_from and run_to after option a
parse_run(f, a) ==
    IF a.opt = "-run"
      THEN IF Len(a.val) = 1
             THEN [f EXCEPT !.run_from = a.val[1], !.run_to = a.val[1]]
             ELSE [f EXCEPT !.run_from = a.val[1], !.run_to = a.val[2]]
      ELSE f

-----------------------------------------------------------------------------
(* State machine *)

BoolFields == {"nodsp", "inferAdder", "inferBram", "bramTypes", "abcOpt", "abc9",
               "noffmap", "nosdff"}

\* After construction the strings are empty and the bool members hold
\* whatever the storage held.
Constructed(b) ==
    [top_opt |-> "", edif_file |-> "", blif_file |-> "", family |-> "", currmodule |-> "",
     verilog_file |-> "", use_dsp_cfg_params |-> "", lib_path |-> "",
     nodsp |-> b["nodsp"], inferAdder |-> b["inferAdder"], inferBram |-> b["inferBram"],
     bramTypes |-> b["bramTypes"], abcOpt |-> b["abcOpt"], abc9 |-> b["abc9"],
     noffmap |-> b["noffmap"], nosdff |-> b["nosdff"]]

NoFrame == [run_from |-> "", run_to |-> "", options |-> 0]

\* the designs execute() is called on
Designs == [full_selection : BOOLEAN]

Scratchpads == [ql_lib_path : {<<>>, <<"/opt/ql/">>}, abc9_D : {0, 1000}]

Init ==
    /\ \E b \in [BoolFields -> BOOLEAN] : this = Constructed(b)
    /\ frame = NoFrame
    /\ pc = "idle"
    /\ status = "idle"
    /\ scratchpad = [ql_lib_path |-> <<>>, abc9_D |-> 0]
    /\ design = [full_selection |-> TRUE]
    /\ calls = <<>>
    /\ listing = <<>>
    /\ warnings = 0
    /\ runlog = <<>>

\* execute() up to its argument loop
execute_enter ==
    /\ pc = "idle"
    /\ pc' = "args"
    /\ this' = [clear_flags(this) EXCEPT
                  !.lib_path = scratchpad_get_string(scratchpad', clear_flags(this).lib_path)]
    /\ frame' = [run_from |-> "", run_to |-> "", options |-> 0]
    /\ status' = "running"
    /\ calls' = <<>>
    /\ listing' = <<>>
    /\ warnings' = 0

\* execute() called on a design no script has run on
ExecuteBegin ==
    /\ design' \in Designs
    /\ scratchpad' \in Scratchpads
    /\ runlog' = <<>>
    /\ execute_enter

\* execute() called again on the design the earlier runs left behind
ExecuteResume ==
    /\ runlog # <<>>
    /\ Len(runlog) < MaxRuns
    /\ UNCHANGED <<design, scratchpad, runlog>>
    /\ execute_enter

\* one iteration of the argument loop, consuming option a
ParseArg(a) ==
    /\ pc = "args"
    /\ frame.options < MaxArgs
    /\ this' = parse_option(this, a)
    /\ frame' = [parse_run(frame, a) EXCEPT !.options = @ + 1]
    /\ UNCHANGED <<pc, status, scratchpad, design, calls, listing, warnings, runlog>>

\* log_cmd_error: execute() is left by an exception
cmd_error ==
    /\ status' = "cmd_error"
    /\ UNCHANGED <<this, scratchpad, calls, warnings, runlog>>

invalid_family_only_empty(family) == family = ""

\* family != "pp3" && family != "qlf_k4n8" && ... : log_cmd_error
invalid_family(family) == family \notin Families

resolve_nosdff_kept(t) == t

\* if (family == "qlf_k4n8") nosdff = true;
resolve(t) == [t EXCEPT !.nosdff = IF t.family = "qlf_k4n8" THEN TRUE ELSE @]

abc9_D_unset_abc9_ignored(t, sp) == sp.abc9_D = 0

\* abc9 && design->scratchpad_get_int("abc9.D", 0) == 0
abc9_D_unset(t, sp) == t.abc9 /\ sp.abc9_D = 0

\* run_script(design, run_from, run_to): script() with help_mode off
run_script(t, run_from, run_to) == script(Ctx(t, FALSE, run_from, run_to)).ops

\* execute() after its argument loop: the preconditions, the abc9.D default
\* and run_script
ExecuteFinish ==
    /\ pc = "args"
    /\ pc' = "idle"
    /\ UNCHANGED <<frame, design, listing>>
    /\ IF ~design.full_selection
         THEN cmd_error
         ELSE IF invalid_family(this.family)
           THEN cmd_error
           ELSE LET t == resolve(this)
                    ops == run_script(t, frame.run_from, frame.run_to)
                IN  /\ this' = script_this(t, Ctx(t, FALSE, frame.run_from, frame.run_to))
                    /\ warnings' = IF abc9_D_unset(t, scratchpad) THEN 1 ELSE 0
                    /\ scratchpad' = IF abc9_D_unset(t, scratchpad)
                                       THEN [scratchpad EXCEPT !.abc9_D = 500]
                                       ELSE scratchpad
                    /\ calls' = ops
                    /\ status' = "done"
                    /\ runlog' = Append(runlog, [config |-> t, run_from |-> frame.run_from,
                                                 run_to |-> frame.run_to, ops |-> ops])

\* help_script(): the flags are reset and script() is walked in preview mode
\* with every label active; script() leaves the family at its placeholder
help_script(t) ==
    LET h == clear_flags(t)
        c == Ctx(h, TRUE, "", "")
    IN  [this |-> script_this(h, c), ops |-> script(c).ops]

\* help()
Help ==
    /\ pc = "idle"
    /\ LET h == help_script(this)
       IN  /\ this' = h.this
           /\ listing' = h.ops
    /\ status' = "help"
    /\ UNCHANGED <<frame, pc, scratchpad, design, calls, warnings, runlog>>

\* One synthesis run per design: any command line of up to MaxArgs options.
Next ==
    \/ ExecuteBegin
    \/ \E a \in Args : ParseArg(a)
    \/ ExecuteFinish

Spec == Init /\ [][Next]_vars

\* Synthesis runs and help() calls in any order.
NextHelp ==
    \/ ExecuteBegin
    \/ \E a \in Args : ParseArg(a)
    \/ ExecuteFinish
    \/ Help

SpecHelp == Init /\ [][NextHelp]_vars

\* A design synthesised in several runs: a run may be followed by further runs
\* on the design it left behind, each given the configuration of the first.
ResumeArgs ==
    {Arg("-run", <<"begin", "map_gates">>), Arg("-run", <<"map_ffs", "verilog">>),
     Arg("-family", <<"pp3">>), Arg("-family", <<"qlf_k6n10">>),
     Arg("-family", <<"qlf_k6n10f">>), Arg("-nosdff", <<>>), Arg("-no_dsp", <<>>)}

SameConfiguration == runlog # <<>> => resolve(this) = runlog[1].config

NextResume ==
    \/ ExecuteBegin
    \/ ExecuteResume
    \/ \E a \in ResumeArgs : ParseArg(a)
    \/ (SameConfiguration /\ ExecuteFinish)

SpecResume == Init /\ [][NextResume]_vars

\* A session as above in which help() may also be called between the runs.
NextSession ==
    \/ ExecuteBegin
    \/ ExecuteResume
    \/ \E a \in ResumeArgs : ParseArg(a)
    \/ (SameConfiguration /\ ExecuteFinish)
    \/ Help

SpecSession == Init /\ [][NextSession]_vars

-----------------------------------------------------------------------------
(* Vocabulary of the properties *)

\* a real (non-preview) run has completed
Ran == pc = "idle" /\ status = "done"

\* the run was given the full window
FullWindow == frame.run_from = "" /\ frame.run_to = ""

\* the checkpoint is inside the window of the run
Active(label) == InWindow(label, frame.run_from, frame.run_to)

\* the operations the run issued in a checkpoint
OpsOf(label) == SelectSeq(calls, LAMBDA o : o.label = label)

\* the run invoked an operation of this name
Invoked(name) == \E i \in 1..Len(calls) : calls[i].name = name

\* the operation sequence of a run: operation name plus literal parameter string
Commands(ops) == [i \in 1..Len(ops) |-> ops[i].name \o ops[i].args]

\* the BRAM re-typing operations of the run
BramChtypes == SelectSeq(calls, LAMBDA o : o.label = "map_bram" /\ o.name = "chtype")

BramKinds == {"BRAM", "FIFO_ASYNC", "FIFO_SYNC"}

Widths(W) == {W[i] : i \in 1..Len(W)}

\* the type names of the non-split and of the split scheme
NonsplitTypes ==
    {nonsplit_type(k, a, b) : k \in BramKinds, a \in Widths(nonsplit_widths),
                              b \in Widths(nonsplit_widths)}

SplitTypes ==
    {split_type(k, w[1], w[2], w[3], w[4]) :
        k \in BramKinds,
        w \in Widths(split_widths) \X Widths(split_widths)
              \X Widths(split_widths) \X Widths(split_widths)}

\* how many operations of ops set a type of the given scheme, selecting on
\* the given is_inferred values
Retypings(ops, types, inferred) ==
    Cardinality({i \in 1..Len(ops) : ops[i].target \in types /\ ops[i].inferred \in inferred})

-----------------------------------------------------------------------------
(* C1 (SpecResume) *)

WindowIs(r, run_from, run_to) == r.run_from = run_from /\ r.run_to = run_to

\* C1: a run over begin..map_gates followed by a run over map_ffs..verilog, with
\* the configuration of a single run over the whole script, issues in two
\* parts the operation sequence the single run issues.
C1_ResumeEquivalence ==
    \A i, k \in 1..Len(runlog) :
        (/\ i + 1 <= Len(runlog)
         /\ WindowIs(runlog[i], "begin", "map_gates")
         /\ WindowIs(runlog[i + 1], "map_ffs", "verilog")
         /\ WindowIs(runlog[k], "", "")
         /\ runlog[i].config = runlog[k].config
         /\ runlog[i + 1].config = runlog[k].config)
        => Commands(runlog[i].ops) \o Commands(runlog[i + 1].ops) = Commands(runlog[k].ops)

-----------------------------------------------------------------------------
(* C2 *)

\* C2: a real run issues operations only in checkpoints inside its window.
C2_NoOperationOutsideWindow ==
    Ran => \A i \in 1..Len(calls) : Active(calls[i].label)

-----------------------------------------------------------------------------
(* C3 *)

\* C3: when execute() leaves its argument loop with a family outside the four
\* supported ones, or on a design that is not fully selected, it ends in a
\* fatal error, invokes no operation and does not write abc9.D.
C3_FatalPreconditions ==
    [][(/\ pc = "args"
        /\ pc' = "idle"
        /\ (this.family \notin {"pp3", "qlf_k4n8", "qlf_k6n10", "qlf_k6n10f"}
            \/ ~design.full_selection))
       => (/\ status' = "cmd_error"
           /\ calls' = <<>>
           /\ warnings' = 0
           /\ scratchpad' = scratchpad)]_vars

C3_Witness ==
    /\ pc = "idle"
    /\ status = "cmd_error"
    /\ this.family = "ql_unknown"
    /\ design.full_selection
    /\ this.abc9 /\ this.nodsp
    /\ scratchpad.abc9_D = 0

-----------------------------------------------------------------------------
(* C4 *)

DspOperations == {"ql_dsp", "ql_dsp_macc", "ql_dsp_simd", "ql_dsp_io_regs"}

\* C4: with -no_dsp a real run issues nothing in map_dsp and no DSP operation
\* anywhere; without it map_dsp issues operations only for qlf_k6n10 and
\* qlf_k6n10f.
C4_NoDspOperations ==
    Ran => /\ this.nodsp => /\ OpsOf("map_dsp") = <<>>
                            /\ \A i \in 1..Len(calls) : calls[i].name \notin DspOperations
           /\ OpsOf("map_dsp") # <<>> => this.family \in {"qlf_k6n10", "qlf_k6n10f"}

C4_Witness ==
    /\ Ran
    /\ this.nodsp
    /\ this.family = "qlf_k6n10"
    /\ calls # <<>>

-----------------------------------------------------------------------------
(* C5 *)

\* C5: with -no_bram a real run issues nothing in map_bram, whatever the
\* family and the other flags.
C5_NoBramOperations ==
    (Ran /\ ~this.inferBram) => OpsOf("map_bram") = <<>>

C5_Witness ==
    /\ Ran
    /\ ~this.inferBram
    /\ this.bramTypes
    /\ this.family = "qlf_k6n10f"
    /\ Active("map_bram")
    /\ calls # <<>>

-----------------------------------------------------------------------------
(* C6 *)

\* map_bram runs its body with the enumeration
BramTypesRun ==
    /\ Ran
    /\ this.bramTypes
    /\ this.inferBram
    /\ this.family \in {"pp3", "qlf_k6n10", "qlf_k6n10f"}
    /\ Active("map_bram")

\* C6 as stated: 108 non-split and 9375 split re-typing operations.
C6_AsStated ==
    BramTypesRun => /\ Retypings(BramChtypes, NonsplitTypes, {0, 1}) = 108
                    /\ Retypings(BramChtypes, SplitTypes, {0, 1}) = 9375

\* C6, amended: one execution of map_bram with -bram_types issues 108 non-split
\* and 1875 split re-typing operations that select is_inferred=0, and 36
\* non-split and 625 split ones that select is_inferred=1: 144 non-split and
\* 2500 split in all, and no other chtype.
C6_BramTypeCounts ==
    BramTypesRun => /\ Retypings(BramChtypes, NonsplitTypes, {0}) = 108
                    /\ Retypings(BramChtypes, SplitTypes, {0}) = 1875
                    /\ Retypings(BramChtypes, NonsplitTypes, {1}) = 36
                    /\ Retypings(BramChtypes, SplitTypes, {1}) = 625
                    /\ Len(BramChtypes) = 2644

C6_Witness ==
    /\ BramTypesRun
    /\ this.family = "qlf_k6n10f"
    /\ Len(BramChtypes) > 0

-----------------------------------------------------------------------------
(* C7 *)

\* C7: over the full window each writer is invoked exactly when its own
\* output path is non-empty.
C7_WriterIffPath ==
    (Ran /\ FullWindow) => /\ Invoked("write_blif") <=> this.blif_file # ""
                           /\ Invoked("write_ql_edif") <=> this.edif_file # ""
                           /\ Invoked("write_verilog") <=> this.verilog_file # ""

C7_Witness ==
    /\ Ran
    /\ FullWindow
    /\ this.blif_file # ""
    /\ this.edif_file = ""
    /\ this.verilog_file # ""
    /\ Invoked("write_blif")
    /\ ~Invoked("write_ql_edif")

-----------------------------------------------------------------------------
(* C8 *)

\* the top module of the run: the one given by -top, else the one hierarchy
\* detects
ResolvedTop == IF this.top_opt = "-top top" THEN "top" ELSE "<auto-top>"

\* C8: when the edif checkpoint runs, splitnets and quicklogic_eqn precede the
\* writer, and write_ql_edif is given the resolved top module and the path.
C8_EdifWriterGetsTop ==
    (Ran /\ OpsOf("edif") # <<>>)
    => Commands(OpsOf("edif")) =
         <<"splitnets -ports -format ()",
           "quicklogic_eqn",
           "write_ql_edif -nogndvcc -attrprop -pvector par " \o ResolvedTop \o " "
           \o this.edif_file>>

-----------------------------------------------------------------------------
(* C9 *)

\* C9: for qlf_k6n10f without -no_dsp, map_dsp applies the 20x18 rule, then the
\* 10x9 rule, each techmap followed by the soft-multiplier chtype, and then
\* dsp_map, ql_dsp_simd, dsp_final_map and ql_dsp_io_regs; the rules are in
\* strictly descending width order.
C9_DspRulesDescending ==
    (Ran /\ this.family = "qlf_k6n10f" /\ ~this.nodsp)
    => /\ Commands(OpsOf("map_dsp")) =
            <<"wreduce t:$mul",
              "ql_dsp_macc" \o this.use_dsp_cfg_params,
              "techmap -map +/mul2dsp.v -D DSP_A_MAXWIDTH=20 -D DSP_B_MAXWIDTH=18 "
              \o "-D DSP_A_MINWIDTH=11 -D DSP_B_MINWIDTH=10 -D DSP_NAME=$__QL_MUL20X18",
              "chtype -set $mul t:$__soft_mul",
              "techmap -map +/mul2dsp.v -D DSP_A_MAXWIDTH=10 -D DSP_B_MAXWIDTH=9 "
              \o "-D DSP_A_MINWIDTH=4 -D DSP_B_MINWIDTH=4 -D DSP_NAME=$__QL_MUL10X9",
              "chtype -set $mul t:$__soft_mul",
              "techmap -map " \o this.lib_path \o "qlf_k6n10f/dsp_map.v -D USE_DSP_CFG_PARAMS="
              \o (IF this.use_dsp_cfg_params = "" THEN "0" ELSE "1"),
              "ql_dsp_simd",
              "techmap -map " \o this.lib_path \o "qlf_k6n10f/dsp_final_map.v",
              "ql_dsp_io_regs">>
       /\ \A i, j \in 1..Len(dsp_rules) :
             i < j => /\ dsp_rules[i].a_maxwidth > dsp_rules[j].a_maxwidth
                      /\ dsp_rules[i].b_maxwidth > dsp_rules[j].b_maxwidth

C9_Witness ==
    /\ Ran
    /\ this.family = "qlf_k6n10f"
    /\ ~this.nodsp
    /\ this.use_dsp_cfg_params # ""
    /\ Len(OpsOf("map_dsp")) = 10

-----------------------------------------------------------------------------
(* C10 (SpecHelp) *)

\* C10: every operation a real run invokes is listed, under the same
\* checkpoint and operation name, by the preview walk of script().
C10_PreviewListsEveryOperation ==
    (listing # <<>> /\ calls # <<>>)
    => \A i \in 1..Len(calls) :
          \E j \in 1..Len(listing) :
             listing[j].label = calls[i].label /\ listing[j].name = calls[i].name

-----------------------------------------------------------------------------
(* C11 *)

\* C11: the operations of a run follow the fixed checkpoint order: an
\* operation is never followed by one of an earlier checkpoint, so each
\* checkpoint's operations form one block and no checkpoint is revisited.
C11_CheckpointOrder ==
    Ran => \A i \in 1..(Len(calls) - 1) :
              LabelIndex[calls[i].label] <= LabelIndex[calls[i + 1].label]

C11_Witness ==
    /\ Ran
    /\ FullWindow
    /\ this.family = "qlf_k6n10f"
    /\ this.verilog_file # ""
    /\ OpsOf("map_dsp") # <<>>
    /\ OpsOf("coarse") # <<>>
    /\ calls[1].label = "begin"
    /\ calls[Len(calls)].label = "verilog"

-----------------------------------------------------------------------------
(* C12 *)

\* execute() leaves its argument loop and passes both precondition checks
PassesPreconditions ==
    /\ pc = "args"
    /\ pc' = "idle"
    /\ design.full_selection
    /\ this.family \in {"pp3", "qlf_k4n8", "qlf_k6n10", "qlf_k6n10f"}

\* C12 as stated: whenever abc9.D is 0 it is set to 500 with a warning and
\* the run continues; a non-zero abc9.D is left unchanged.
C12_AsStated ==
    [][PassesPreconditions
       => /\ status' = "done"
          /\ IF scratchpad.abc9_D = 0
               THEN scratchpad' = [scratchpad EXCEPT !.abc9_D = 500] /\ warnings' = 1
               ELSE scratchpad' = scratchpad /\ warnings' = 0]_vars

\* C12, amended: when abc9 is enabled (no -no_abc9) and abc9.D is 0, execute()
\* sets abc9.D to 500, logs one warning and runs the pipeline; with -no_abc9,
\* or with a non-zero abc9.D, the scratchpad is left unchanged and nothing is
\* logged, and the pipeline runs as well.
C12_Abc9DelayDefault ==
    [][PassesPreconditions
       => /\ status' = "done"
          /\ IF this.abc9 /\ scratchpad.abc9_D = 0
               THEN scratchpad' = [scratchpad EXCEPT !.abc9_D = 500] /\ warnings' = 1
               ELSE scratchpad' = scratchpad /\ warnings' = 0]_vars

C12_Witness ==
    /\ Ran
    /\ this.abc9
    /\ scratchpad.abc9_D = 500
    /\ warnings = 1
    /\ calls # <<>>

-----------------------------------------------------------------------------
(* C14 *)

\* the opt invocations that carry noDFFArgs (prepare, coarse, map_ffram,
\* map_gates, map_ffs); the opt of prepare with fixed arguments is not one
CarriesFragment(op) ==
    /\ op.name = "opt"
    /\ op.label \in {"prepare", "coarse", "map_ffram", "map_gates", "map_ffs"}
    /\ op.args # " -nodffe -nosdff"

\* the fixed arguments that precede the fragment in those invocations
OptPrefixes == {"", " -fast -mux_undef -undriven -fine", " -undriven -fine", " -fast"}

\* ' -nosdff' if sdff inference is disabled, then ' -nodffe' for qlf_k4n8
FragmentOf(t) ==
    (IF t.nosdff THEN " -nosdff" ELSE "") \o (IF t.family = "qlf_k4n8" THEN " -nodffe" ELSE "")

\* C14: every invocation of a run that carries the derived fragment carries
\* the one value computed from the configuration: ' -nosdff' if sdff
\* inference is disabled followed by ' -nodffe' if the family is qlf_k4n8.
C14_FragmentWriteOnce ==
    Ran => \A i \in 1..Len(calls) :
              CarriesFragment(calls[i])
              => calls[i].args \in {prefix \o FragmentOf(this) : prefix \in OptPrefixes}

-----------------------------------------------------------------------------
(* C15 *)

\* C15: in a full run for qlf_k4n8 the nosdff toggle is on whether or not
\* -nosdff was given: every fragment-carrying opt ends in ' -nosdff -nodffe'
\* and the only dfflegalize lists the plain $_DFF_* and $_DFFSR_* cells, no
\* $_SDFF* cell.
C15_K4n8ForcesNosdff ==
    (Ran /\ FullWindow /\ this.family = "qlf_k4n8")
    => /\ this.nosdff
       /\ \A i \in 1..Len(calls) :
             /\ CarriesFragment(calls[i])
                => calls[i].args \in {prefix \o " -nosdff -nodffe" : prefix \in OptPrefixes}
             /\ calls[i].name = "dfflegalize"
                => calls[i].args = " -cell $_DFF_P_ 0 -cell $_DFF_P??_ 0 -cell $_DFF_N_ 0"
                                   \o " -cell $_DFF_N??_ 0 -cell $_DFFSR_???_ 0"

\* a full qlf_k4n8 run on a command line without options, so without -nosdff
C15_Witness ==
    /\ Ran
    /\ FullWindow
    /\ this.family = "qlf_k4n8"
    /\ frame.options = 0
    /\ Invoked("dfflegalize")
    /\ \E i \in 1..Len(calls) : CarriesFragment(calls[i])

-----------------------------------------------------------------------------
(* C16 *)

\* the operations of map_bram other than the re-typings of the enumeration
BramMapping == SelectSeq(OpsOf("map_bram"), LAMBDA o : o.name # "chtype")

\* the memory-inference operations of a family, for library directory lib
MemoryInference(family, lib) ==
    CASE family = "qlf_k6n10f" -> <<"memory_libmap -lib " \o lib \o "/libmap_brams.txt",
                                    "ql_bram_merge",
                                    "techmap -map " \o lib \o "/libmap_brams_map.v">>
      [] family = "qlf_k6n10" -> <<"memory_bram -rules " \o lib \o "/brams.txt">>
      [] family = "pp3" -> <<"memory_bram -rules " \o lib \o "/brams.txt", "pp3_braminit">>
      [] OTHER -> <<>>

\* C16: with BRAM inference enabled and map_bram in the window, map_bram issues
\* nothing for qlf_k4n8; for pp3, qlf_k6n10 and qlf_k6n10f it issues the
\* family's memory-inference operations, then the brams_map.v techmap once,
\* then, for qlf_k6n10f only, the brams_final_map.v techmap, and only then
\* any re-typing of the -bram_types enumeration.
C16_BramMappingOrder ==
    (Ran /\ this.inferBram /\ Active("map_bram"))
    => LET lib == this.lib_path \o this.family
           ops == OpsOf("map_bram")
       IN  IF this.family = "qlf_k4n8"
             THEN ops = <<>>
             ELSE /\ Commands(BramMapping) =
                       MemoryInference(this.family, lib)
                       \o <<"techmap -autoproc -map " \o lib \o "/brams_map.v">>
                       \o (IF this.family = "qlf_k6n10f"
                             THEN <<"techmap -map " \o lib \o "/brams_final_map.v">>
                             ELSE <<>>)
                  /\ SubSeq(ops, 1, Len(BramMapping)) = BramMapping

C16_Witness ==
    /\ Ran
    /\ this.inferBram
    /\ Active("map_bram")
    /\ this.family = "qlf_k6n10f"
    /\ this.lib_path = "/opt/ql/"
    /\ Len(BramMapping) = 5

-----------------------------------------------------------------------------
(* C17 *)

\* the type names set by the operations of ops that select the given
\* is_inferred, and the number of those operations
TargetsOf(ops, inferred) ==
    {ops[i].target : i \in {j \in 1..Len(ops) : ops[j].inferred = inferred}}

SelectingOn(ops, inferred) ==
    Cardinality({i \in 1..Len(ops) : ops[i].inferred = inferred})

\* C17 as stated: no two re-typing operations of the enumeration set the same
\* type.
C17_AsStated ==
    BramTypesRun
    => LET ch == BramChtypes
       IN  Cardinality(TargetsOf(ch, 0) \cup TargetsOf(ch, 1)) = Len(ch)

\* C17, amended: among the re-typings that select is_inferred=0 no two set the
\* same type, and among those that select is_inferred=1 no two set the same
\* type; every type set by an is_inferred=1 re-typing is also set by an
\* is_inferred=0 one.
C17_DistinctPerInferredClass ==
    BramTypesRun
    => LET ch == BramChtypes
           types0 == TargetsOf(ch, 0)
           types1 == TargetsOf(ch, 1)
       IN  /\ Cardinality(types0) = SelectingOn(ch, 0)
           /\ Cardinality(types1) = SelectingOn(ch, 1)
           /\ types1 \subseteq types0
           /\ types1 # {}

C17_Witness ==
    /\ BramTypesRun
    /\ this.family = "pp3"
    /\ BramChtypes[1].target = "TDP36K_BRAM_A_X1_B_X1_nonsplit"
    /\ BramChtypes[Len(BramChtypes)].target = "TDP36K_BRAM_A1_X18_B1_X18_A2_X18_B2_X18_split"

-----------------------------------------------------------------------------
(* C18 *)

\* the cells dfflegalize is given for a family (qlf_k6n10f without -nosdff has
\* $_SDFFE_?N?P_ in addition)
LegalCells(family) ==
    CASE family = "qlf_k4n8" ->
           " -cell $_DFF_P_ 0 -cell $_DFF_P??_ 0 -cell $_DFF_N_ 0 -cell $_DFF_N??_ 0"
           \o " -cell $_DFFSR_???_ 0"
      [] family = "qlf_k6n10" ->
           " -cell $_DFF_P_ 0 -cell $_DFF_PP?_ 0 -cell $_DFFE_PP?P_ 0"
           \o " -cell $_DFFSR_PPP_ 0 -cell $_DFFSRE_PPPP_ 0 -cell $_DLATCHSR_PPP_ 0"
      [] family = "qlf_k6n10f" ->
           " -cell $_DFFSRE_?NNP_ 0 -cell $_DLATCHSR_?NN_ 0 -cell $_DLATCH_?_ 0"
      [] family = "pp3" -> " -cell $_DFFSRE_PPPP_ 0 -cell $_DLATCH_?_ x"

\* C18: in map_ffs of a real run there is exactly one dfflegalize; it lists
\* $_SDFFE_?N?P_ exactly for qlf_k6n10f with sdff inference not disabled; the
\* ffs_map.v techmap is issued exactly when -no_ff_map is not set.
C18_FlipFlopLegalization ==
    (Ran /\ Active("map_ffs"))
    => LET ops == OpsOf("map_ffs")
           legalize == SelectSeq(ops, LAMBDA o : o.name = "dfflegalize")
           ffs_map == "techmap  -map +/techmap.v -map " \o this.lib_path \o this.family
                      \o "/ffs_map.v"
       IN  /\ Len(legalize) = 1
           /\ legalize[1].args =
                 LegalCells(this.family)
                 \o (IF this.family = "qlf_k6n10f" /\ ~this.nosdff
                       THEN " -cell $_SDFFE_?N?P_ 0" ELSE "")
           /\ (\E i \in 1..Len(ops) : Commands(ops)[i] = ffs_map) <=> ~this.noffmap

C18_Witness ==
    /\ Ran
    /\ Active("map_ffs")
    /\ this.family = "qlf_k6n10f"
    /\ this.nosdff
    /\ this.noffmap
    /\ Invoked("dfflegalize")

-----------------------------------------------------------------------------
(* C19 *)

\* C19: in map_luts of a real run there is exactly one abc or abc9 operation
\* when the optimizer is enabled and none with -no_abc_opt; it is
\* 'abc9 -maxlut 6' or 'abc -lut 6 ' by the abc9 toggle for qlf_k6n10 and
\* qlf_k6n10f, 'abc -lut 4 ' for qlf_k4n8, and abc9 or scripted abc (never
\* both) for pp3; clean and opt_lut are the last two operations.
C19_LutMapping ==
    (Ran /\ Active("map_luts"))
    => LET ops == OpsOf("map_luts")
           mappers == SelectSeq(ops, LAMBDA o : o.name \in {"abc", "abc9"})
       IN  /\ Len(mappers) = IF this.abcOpt THEN 1 ELSE 0
           /\ this.abcOpt
              => CASE this.family \in {"qlf_k6n10", "qlf_k6n10f"} ->
                        Commands(mappers) = IF this.abc9 THEN <<"abc9 -maxlut 6">>
                                            ELSE <<"abc -lut 6 ">>
                   [] this.family = "qlf_k4n8" -> Commands(mappers) = <<"abc -lut 4 ">>
                   [] this.family = "pp3" ->
                        IF this.abc9 THEN Commands(mappers) = <<"abc9 -maxlut 4 -dff">>
                        ELSE mappers[1].name = "abc"
           /\ Len(ops) >= 2
           /\ Commands(SubSeq(ops, Len(ops) - 1, Len(ops))) = <<"clean", "opt_lut">>

C19_Witness ==
    /\ Ran
    /\ Active("map_luts")
    /\ this.family = "qlf_k6n10"
    /\ this.abcOpt
    /\ ~this.abc9
    /\ Invoked("abc")

-----------------------------------------------------------------------------
(* C20 *)

\* C20: when a real run has finished, the family and every configuration
\* field of the pass are what they were when execute() called run_script():
\* script() has changed none of them.
C20_ScriptKeepsConfiguration ==
    Ran => /\ runlog # <<>>
           /\ this = runlog[Len(runlog)].config

C20_Witness ==
    /\ Ran
    /\ this.family = "pp3"
    /\ this.nodsp
    /\ this.top_opt = "-top top"
    /\ runlog # <<>>
    /\ calls # <<>>

-----------------------------------------------------------------------------
(* C21 *)

\* the window of the last run recorded
LastRun == runlog[Len(runlog)]

\* C21: entering execute() leaves both ends of the window empty; '-run a:b'
\* sets from=a and to=b, '-run a' sets both to a, whatever an earlier -run
\* set; no other option changes the window; and run_script is called once,
\* with the window as the argument loop left it.
C21_RunWindow ==
    [][/\ (pc = "idle" /\ pc' = "args") => (frame'.run_from = "" /\ frame'.run_to = "")
       /\ \A a \in RunArgs :
             ParseArg(a) => /\ frame'.run_from = a.val[1]
                            /\ frame'.run_to = IF Len(a.val) = 1 THEN a.val[1] ELSE a.val[2]
       /\ \A a \in Args \ RunArgs :
             ParseArg(a) => /\ frame'.run_from = frame.run_from
                            /\ frame'.run_to = frame.run_to
       /\ (pc = "args" /\ status' = "done")
          => /\ Len(runlog') = Len(runlog) + 1
             /\ runlog'[Len(runlog')].run_from = frame.run_from
             /\ runlog'[Len(runlog')].run_to = frame.run_to
             /\ calls' = script(Ctx(this', FALSE, frame.run_from, frame.run_to)).ops]_vars

\* a run of MaxArgs options whose last -run was '-run coarse'
C21_Witness ==
    /\ Ran
    /\ frame.options = MaxArgs
    /\ frame.run_from = "coarse"
    /\ frame.run_to = "coarse"
    /\ this = [clear_flags(this) EXCEPT !.lib_path = this.lib_path, !.nosdff = TRUE]
    /\ LastRun.run_from = "coarse"
    /\ OpsOf("coarse") # <<>>

-----------------------------------------------------------------------------
(* C22 (SpecSession) *)

\* the fields execute() starts its argument loop with, for scratchpad sp
EntryConfiguration(sp) ==
    [top_opt |-> "-auto-top", edif_file |-> "", blif_file |-> "", verilog_file |-> "",
     currmodule |-> "", family |-> "qlf_k4n8", inferAdder |-> TRUE, inferBram |-> TRUE,
     bramTypes |-> FALSE, abcOpt |-> TRUE, abc9 |-> TRUE, noffmap |-> FALSE,
     nodsp |-> FALSE, nosdff |-> FALSE, use_dsp_cfg_params |-> "",
     lib_path |-> IF sp.ql_lib_path = <<>> THEN "+/quicklogic/" ELSE sp.ql_lib_path[1]]

\* C22: whatever earlier execute() and help() calls left in the pass, execute()
\* starts its argument loop with fields fixed by the scratchpad alone, and two
\* runs of a session with the same resolved arguments and window issue the
\* same operations.
C22_IndependentOfEarlierCalls ==
    /\ (pc = "args" /\ frame.options = 0)
       => /\ this = EntryConfiguration(scratchpad)
          /\ frame.run_from = "" /\ frame.run_to = ""
    /\ \A i, j \in 1..Len(runlog) :
          (/\ runlog[i].config = runlog[j].config
           /\ runlog[i].run_from = runlog[j].run_from
           /\ runlog[i].run_to = runlog[j].run_to)
          => runlog[i].ops = runlog[j].ops

\* execute() entered again after a run with -no_dsp for qlf_k6n10f
C22_Witness ==
    /\ pc = "args"
    /\ frame.options = 0
    /\ runlog # <<>>
    /\ runlog[1].config.nodsp
    /\ runlog[1].config.family = "qlf_k6n10f"
    /\ ~this.nodsp
    /\ this.family = "qlf_k4n8"

-----------------------------------------------------------------------------
(* C23 *)

\* C23: BRAM-variant re-typings (chtype -set TDP36K_*) are issued only in runs
\* configured so that begin reads bram_types_sim.v: family qlf_k6n10f with
\* -bram_types.
C23_RetypingOnlyWithVariantsModel ==
    (Ran /\ BramChtypes # <<>>) => (this.family = "qlf_k6n10f" /\ this.bramTypes)

-----------------------------------------------------------------------------
(* C24 *)

Pp3Operations == {"tribuf", "muxcover", "pp3_braminit", "setundef", "clkbufmap", "iopadmap"}

\* C24: in a real run the pp3 operations are invoked only for pp3, the
\* lut_map.v techmap of map_cells only for pp3 and qlf_k6n10, the arith_map.v
\* techmap of map_gates exactly for the three qlf families with adder
\* inference (plain techmap otherwise), and hilomap only for pp3 or with an
\* -edif path.
C24_FamilySpecificOperations ==
    Ran => \A i \in 1..Len(calls) :
              LET op == calls[i]
                  lib == this.lib_path \o this.family
              IN  /\ op.name \in Pp3Operations => this.family = "pp3"
                  /\ (op.label = "map_cells" /\ op.name = "techmap")
                     => /\ this.family \in {"pp3", "qlf_k6n10"}
                        /\ op.args = " -map " \o lib \o "/lut_map.v"
                  /\ (op.label = "map_gates" /\ op.name = "techmap")
                     => op.args = IF this.inferAdder
                                     /\ this.family \in {"qlf_k4n8", "qlf_k6n10", "qlf_k6n10f"}
                                    THEN " -map +/techmap.v -map " \o lib \o "/arith_map.v"
                                    ELSE ""
                  /\ op.name = "hilomap" => (this.family = "pp3" \/ this.edif_file # "")

C24_Witness ==
    /\ Ran
    /\ FullWindow
    /\ this.family = "qlf_k6n10"
    /\ ~this.inferAdder
    /\ this.edif_file # ""
    /\ Invoked("hilomap")
    /\ OpsOf("map_cells") # <<>>

-----------------------------------------------------------------------------
(* C25 *)

\* the operations that take plugin library files
TakesLibraryFile(op) == op.name \in {"read_verilog", "techmap", "memory_libmap", "memory_bram"}

\* the simulation models begin may read, rooted at lib_path and family
RootedModels(lib_path, family) ==
    LET common == " " \o lib_path \o "common/cells_sim.v"
        f(name) == " " \o lib_path \o family \o "/" \o name
    IN  {common \o f("cells_sim.v"),
         common \o f("cells_sim.v") \o f("dsp_sim.v") \o f("brams_sim.v"),
         common \o f("cells_sim.v") \o f("dsp_sim.v") \o f("brams_sim.v")
         \o f("bram_types_sim.v")}

\* the parameter strings of those operations in which every plugin library
\* file is lib_path, then the family or 'common', then the file name; files
\* of Yosys itself (+/techmap.v, +/mul2dsp.v, +/cmp2lut.v) are not plugin files
RootedParameters(lib_path, family) ==
    LET lib == lib_path \o family
        mul2dsp == " -map +/mul2dsp.v"
    IN  {" -lib -specify -nomem2reg" \o m : m \in RootedModels(lib_path, family)}
        \cup {" -lib -specify -icells " \o lib \o "/abc9_model.v"}
        \cup {" -map " \o lib \o "/" \o file :
                 file \in {"dsp_map.v -D USE_DSP_CFG_PARAMS=0", "dsp_map.v -D USE_DSP_CFG_PARAMS=1",
                           "dsp_final_map.v", "libmap_brams_map.v", "brams_final_map.v",
                           "cells_map.v", "latches_map.v", "abc9_map.v", "abc9_unmap.v",
                           "lut_map.v"}}
        \cup {"",
              " -map +/cmp2lut.v -D LUT_WIDTH=4",
              mul2dsp \o " -map " \o lib \o "/dsp_map.v -D DSP_A_MAXWIDTH=16"
              \o " -D DSP_B_MAXWIDTH=16 -D DSP_A_MINWIDTH=2 -D DSP_B_MINWIDTH=2"
              \o " -D DSP_Y_MINWIDTH=11 -D DSP_NAME=$__MUL16X16",
              mul2dsp \o " -D DSP_A_MAXWIDTH=20 -D DSP_B_MAXWIDTH=18 -D DSP_A_MINWIDTH=11"
              \o " -D DSP_B_MINWIDTH=10 -D DSP_NAME=$__QL_MUL20X18",
              mul2dsp \o " -D DSP_A_MAXWIDTH=10 -D DSP_B_MAXWIDTH=9 -D DSP_A_MINWIDTH=4"
              \o " -D DSP_B_MINWIDTH=4 -D DSP_NAME=$__QL_MUL10X9",
              " -autoproc -map " \o lib \o "/brams_map.v",
              " -map +/techmap.v -map " \o lib \o "/arith_map.v",
              "  -map +/techmap.v -map " \o lib \o "/ffs_map.v",
              " -lib " \o lib \o "/libmap_brams.txt",
              " -rules " \o lib \o "/brams.txt"}

\* C25: every plugin library file named in an operation of a real run is
\* rooted at the run's library path followed by the run's family or common.
C25_LibraryFilesRooted ==
    Ran => \A i \in 1..Len(calls) :
              TakesLibraryFile(calls[i])
              => calls[i].args \in RootedParameters(this.lib_path, this.family)

====
